---- MODULE Spec2Model ----
(***************************************************************************)
(* Model of app.py: one run of main() fetches approved purchase            *)
(* requisitions, normalises them and stores the new ones in a SQL Server   *)
(* table.  The table outlives a run; main() is run again and again.        *)
(*                                                                         *)
(* A row / document keeps document_id, title and end_date; the other       *)
(* string columns (document_number, request_user, request_group,           *)
(* request_factory, form_id) are copied the same way as title and are      *)
(* folded into it.                                                         *)
(***************************************************************************)
EXTENDS Integers, Sequences, FiniteSets, TLC

\* ---- bounds of the model ----
MaxId == 2
MaxDocs == 3

Ids == 1..MaxId
Titles == {"a", "b"}
IsoDate == "2024-03-15T01:30:00Z"
BadDate == "not-a-date"
EndDates == {IsoDate, BadDate}

VARIABLES
    pc,                 \* position of the run in main / save_documents_to_db
    search_results,     \* main: value returned by get_data
    parsed_data,        \* main: value returned by parse_documents_list
    conn,               \* save_documents_to_db: "None", "open" or "closed"
    cursor,             \* save_documents_to_db: "unbound", "open" or "closed"
    idx,                \* position of the for loop over documents
    current_count,      \* row count before the inserts
    newly_added_count,  \* the value the function returns
    dbError,            \* the pyodbc.Error caught by the except clause
    exception,          \* the exception that left main unhandled
    committed,          \* conn.commit() returned in this run
    out,                \* what the run printed
    tableExists,        \* committed: the table is there
    table,              \* committed rows of the table
    txExists,           \* the table as this connection's transaction sees it
    txView,             \* the rows as this connection's transaction sees them
    tableBefore,        \* history: committed rows when save_documents_to_db began
    first               \* history: the first of two calls with the same list

vars == <<pc, search_results, parsed_data, conn, cursor, idx, current_count,
          newly_added_count, dbError, exception, committed, out, tableExists,
          table, txExists, txView, tableBefore, first>>

\* ---- values ----
SeqsUpTo(S, n) == UNION {[1..k -> S] : k \in 0..n}

RawRecords == [document_id : Ids, title : Titles, end_date : EndDates]

\* get_data returns None on every failure, else the decoded JSON object.
\* other_keys: the object has some key besides "records"; a response that
\* carries records carries its paging keys too.
None == [kind |-> "None", has_records |-> FALSE, other_keys |-> FALSE, records |-> <<>>]
Responses ==
    {[kind |-> "dict", has_records |-> TRUE, other_keys |-> TRUE, records |-> rs] :
        rs \in SeqsUpTo(RawRecords, MaxDocs)}
    \cup {[kind |-> "dict", has_records |-> FALSE, other_keys |-> o, records |-> <<>>] :
        o \in BOOLEAN}

\* Python truth value of get_data's result: None and the empty dict are false.
Truthy(d) == d.kind = "dict" /\ (d.has_records \/ d.other_keys)

\* datetime.fromisoformat(...).astimezone(Asia/Tokyo).strftime(...)
DateParses(s) == s = IsoDate
FormatJst(s) == IF s = "2024-03-15T01:30:00Z" THEN "2024-03-15 10:30:00" ELSE "?"

Normalize(record) ==
    [document_id |-> record.document_id,
     title |-> record.title,
     end_date |-> FormatJst(record.end_date)]

\* parse_documents_list: the loop stops at the first record whose end_date
\* raises ValueError, and the exception leaves the function.
RECURSIVE ParseLoop(_, _)
ParseLoop(records, acc) ==
    IF records = <<>> THEN [raised |-> FALSE, docs |-> acc]
    ELSE IF ~DateParses(Head(records).end_date) THEN [raised |-> TRUE, docs |-> <<>>]
    ELSE ParseLoop(Tail(records), Append(acc, Normalize(Head(records))))

parse_documents_list(data) ==
    IF data.has_records THEN ParseLoop(data.records, <<>>)
    ELSE [raised |-> FALSE, docs |-> <<>>]

\* ---- the database ----
RowIds(rows) == {r.document_id : r \in rows}

\* SELECT COUNT(*) FROM table
SelectCount(rows) == Cardinality(rows)

\* INSERT INTO table: the primary key rejects a second row of the same id.
DbInsert(rows, doc) ==
    IF doc.document_id \in RowIds(rows)
    THEN [rows |-> rows, error |-> TRUE]
    ELSE [rows |-> rows \cup {doc}, error |-> FALSE]

\* mutants of InsertIfAbsent: an update-or-insert, and an existence test
\* that lost its WHERE clause
InsertOrReplace(rows, doc) ==
    [rows |-> {r \in rows : r.document_id # doc.document_id} \cup {doc}, error |-> FALSE]
InsertIfTableEmpty(rows, doc) ==
    IF rows # {} THEN [rows |-> rows, error |-> FALSE] ELSE DbInsert(rows, doc)

\* IF NOT EXISTS (SELECT 1 FROM table WHERE document_id = ?) INSERT INTO ...
InsertIfAbsent(rows, doc) ==
    IF doc.document_id \in RowIds(rows)
    THEN [rows |-> rows, error |-> FALSE]
    ELSE DbInsert(rows, doc)

\* mutant of NewlyAdded
NewlyAddedTotal(new_count, old_count) == new_count

\* newly_added_count = new_count - current_count
NewlyAdded(new_count, old_count) == new_count - old_count

NoFirst == [done |-> FALSE, fresh |-> FALSE, ret |-> 0]

Init ==
    /\ pc = "start"
    /\ search_results = None
    /\ parsed_data = <<>>
    /\ conn = "None"
    /\ cursor = "unbound"
    /\ idx = 0
    /\ current_count = 0
    /\ newly_added_count = 0
    /\ dbError = "none"
    /\ exception = "none"
    /\ committed = FALSE
    /\ out = {}
    /\ tableExists = FALSE
    /\ table = {}
    /\ txExists = FALSE
    /\ txView = {}
    /\ tableBefore = {}
    /\ first = NoFirst

dbVars == <<tableExists, table, txExists, txView>>
saveVars == <<conn, cursor, idx, current_count, newly_added_count, dbError, committed>>
histVars == <<tableBefore, first>>

\* ---- main ----
\* get_data: the request succeeds and the body decodes.
GetDataOk ==
    /\ pc = "start"
    /\ \E d \in Responses : search_results' = d
    /\ pc' = "fetched"
    /\ UNCHANGED <<parsed_data, exception, out, saveVars, dbVars, histVars>>

\* get_data: one of the except clauses prints and returns None.
GetDataFail ==
    /\ pc = "start"
    /\ search_results' = None
    /\ out' = out \cup {"api_error"}
    /\ pc' = "fetched"
    /\ UNCHANGED <<parsed_data, exception, saveVars, dbVars, histVars>>

\* main, else branch: print, then logging.ERROR(...) calls the integer
\* constant logging.ERROR, which raises TypeError.
MainNoResults ==
    /\ pc = "fetched"
    /\ ~Truthy(search_results)
    /\ out' = out \cup {"no_results"}
    /\ exception' = "TypeError"
    /\ pc' = "crashed"
    /\ UNCHANGED <<search_results, parsed_data, saveVars, dbVars, histVars>>

\* main, then branch: parse_documents_list returns and save_documents_to_db
\* is entered (conn = None, newly_added_count = 0).
MainParse ==
    /\ pc = "fetched"
    /\ Truthy(search_results)
    /\ ~parse_documents_list(search_results).raised
    /\ parsed_data' = parse_documents_list(search_results).docs
    /\ tableBefore' = table
    /\ pc' = "connect"
    /\ UNCHANGED <<search_results, exception, out, saveVars, dbVars, first>>

\* main, then branch: parse_documents_list raises ValueError.
MainParseRaises ==
    /\ pc = "fetched"
    /\ Truthy(search_results)
    /\ parse_documents_list(search_results).raised
    /\ exception' = "ValueError"
    /\ pc' = "crashed"
    /\ UNCHANGED <<search_results, parsed_data, out, saveVars, dbVars, histVars>>

\* ---- save_documents_to_db ----
\* except pyodbc.Error: print and log, then the finally clause is run.
Caught(step) ==
    /\ dbError' = step
    /\ out' = out \cup {"db_error"}
    /\ pc' = "finally"

Connect ==
    /\ pc = "connect"
    /\ conn' = "open"
    /\ txExists' = tableExists
    /\ txView' = table
    /\ pc' = "cursor"
    /\ UNCHANGED <<search_results, parsed_data, cursor, idx, current_count,
                   newly_added_count, dbError, exception, committed, out,
                   tableExists, table, histVars>>

ConnectFails ==
    /\ pc = "connect"
    /\ Caught("connect")
    /\ UNCHANGED <<search_results, parsed_data, conn, cursor, idx, current_count,
                   newly_added_count, exception, committed, dbVars, histVars>>

Cursor ==
    /\ pc = "cursor"
    /\ cursor' = "open"
    /\ pc' = "create_table"
    /\ UNCHANGED <<search_results, parsed_data, conn, idx, current_count,
                   newly_added_count, dbError, exception, committed, out,
                   dbVars, histVars>>

CursorFails ==
    /\ pc = "cursor"
    /\ Caught("cursor")
    /\ UNCHANGED <<search_results, parsed_data, conn, cursor, idx, current_count,
                   newly_added_count, exception, committed, dbVars, histVars>>

\* create_table returns True: the table is there in this transaction.
CreateTable ==
    /\ pc = "create_table"
    /\ txExists' = TRUE
    /\ pc' = "count_before"
    /\ UNCHANGED <<search_results, parsed_data, saveVars, exception, out,
                   tableExists, table, txView, histVars>>

\* create_table catches the exception itself, prints and returns False:
\* the body of the if is skipped.
CreateTableFails ==
    /\ pc = "create_table"
    /\ out' = out \cup {"create_failed"}
    /\ pc' = "finally"
    /\ UNCHANGED <<search_results, parsed_data, saveVars, exception, dbVars, histVars>>

CountBefore ==
    /\ pc = "count_before"
    /\ current_count' = SelectCount(txView)
    /\ idx' = 1
    /\ pc' = "insert"
    /\ UNCHANGED <<search_results, parsed_data, conn, cursor, newly_added_count,
                   dbError, exception, committed, out, dbVars, histVars>>

\* one iteration of the for loop
Insert ==
    /\ pc = "insert"
    /\ idx <= Len(parsed_data)
    /\ LET r == InsertIfAbsent(txView, parsed_data[idx]) IN
         IF r.error
         THEN /\ Caught("integrity")
              /\ UNCHANGED <<txView, idx>>
         ELSE /\ txView' = r.rows
              /\ idx' = idx + 1
              /\ UNCHANGED <<pc, dbError, out>>
    /\ UNCHANGED <<search_results, parsed_data, conn, cursor, current_count,
                   newly_added_count, exception, committed, tableExists, table,
                   txExists, histVars>>

\* the second count and the subtraction
CountAfter ==
    /\ pc = "insert"
    /\ idx > Len(parsed_data)
    /\ newly_added_count' = NewlyAdded(SelectCount(txView), current_count)
    /\ pc' = "commit"
    /\ UNCHANGED <<search_results, parsed_data, conn, cursor, idx, current_count,
                   dbError, exception, committed, out, dbVars, histVars>>

\* cursor.execute raises pyodbc.Error (either count or an insert)
StatementFails ==
    /\ pc \in {"count_before", "insert"}
    /\ Caught("statement")
    /\ UNCHANGED <<search_results, parsed_data, conn, cursor, idx, current_count,
                   newly_added_count, exception, committed, dbVars, histVars>>

Commit ==
    /\ pc = "commit"
    /\ committed' = TRUE
    /\ tableExists' = txExists
    /\ table' = txView
    /\ pc' = "finally"
    /\ UNCHANGED <<search_results, parsed_data, conn, cursor, idx, current_count,
                   newly_added_count, dbError, exception, out, txExists, txView,
                   histVars>>

\* conn.commit() raises pyodbc.Error: nothing is committed.
CommitFails ==
    /\ pc = "commit"
    /\ Caught("commit")
    /\ UNCHANGED <<search_results, parsed_data, conn, cursor, idx, current_count,
                   newly_added_count, exception, committed, dbVars, histVars>>

\* finally: if conn: cursor.close(); conn.close().  Reading the unbound local
\* cursor raises UnboundLocalError, which leaves main; conn.close() is then
\* not reached.  Closing the connection rolls back what was not committed.
Finally ==
    /\ pc = "finally"
    /\ IF conn = "None"
       THEN /\ pc' = "returned"
            /\ UNCHANGED <<conn, cursor, exception>>
       ELSE IF cursor = "unbound"
       THEN /\ exception' = "UnboundLocalError"
            /\ pc' = "crashed"
            /\ UNCHANGED <<conn, cursor>>
       ELSE /\ cursor' = "closed"
            /\ conn' = "closed"
            /\ pc' = "returned"
            /\ UNCHANGED exception
    /\ txExists' = tableExists
    /\ txView' = table
    /\ UNCHANGED <<search_results, parsed_data, idx, current_count,
                   newly_added_count, dbError, committed, out, tableExists,
                   table, histVars>>

\* main: the two prints after save_documents_to_db returned, and the log
\* line when rows were added
MainReport ==
    /\ pc = "returned"
    /\ out' = out \cup {"saved"} \cup (IF newly_added_count > 0 THEN {"logged"} ELSE {})
    /\ pc' = "done"
    /\ UNCHANGED <<search_results, parsed_data, saveVars, exception, dbVars, histVars>>

Fresh(docs, rows) ==
    /\ \A i, j \in 1..Len(docs) : docs[i].document_id = docs[j].document_id => i = j
    /\ \A i \in 1..Len(docs) : docs[i].document_id \notin RowIds(rows)

\* the process ends (an uncommitted transaction is rolled back by the
\* server) and main is run again
NewRun ==
    /\ pc \in {"done", "crashed"}
    /\ pc' = "start"
    /\ search_results' = None
    /\ parsed_data' = <<>>
    /\ conn' = "None"
    /\ cursor' = "unbound"
    /\ idx' = 0
    /\ current_count' = 0
    /\ newly_added_count' = 0
    /\ dbError' = "none"
    /\ exception' = "none"
    /\ committed' = FALSE
    /\ out' = {}
    /\ txExists' = tableExists
    /\ txView' = table
    /\ tableBefore' = table
    /\ UNCHANGED <<tableExists, table, first>>

Next ==
    \/ GetDataOk
    \/ GetDataFail
    \/ MainNoResults
    \/ MainParse
    \/ MainParseRaises
    \/ Connect
    \/ ConnectFails
    \/ Cursor
    \/ CursorFails
    \/ CreateTable
    \/ CreateTableFails
    \/ CountBefore
    \/ Insert
    \/ CountAfter
    \/ StatementFails
    \/ Commit
    \/ CommitFails
    \/ Finally
    \/ MainReport
    \/ NewRun

Spec == Init /\ [][Next]_vars

\* ---- a second writer on the same table ----
\* Another connection commits an insert.  The server makes it wait while the
\* id is held by this run's open transaction, so the id is new to both; once
\* committed the row is visible to this run's statements (READ COMMITTED).
ExternalInsert ==
    /\ tableExists
    /\ \E row \in [document_id : Ids, title : Titles, end_date : {FormatJst(IsoDate)}] :
         /\ row.document_id \notin RowIds(table \cup txView)
         /\ table' = table \cup {row}
         /\ txView' = txView \cup {row}
    /\ UNCHANGED <<pc, search_results, parsed_data, saveVars, exception, out,
                   tableExists, txExists, histVars>>

NextConc ==
    \/ Next
    \/ ExternalInsert

SpecConc == Init /\ [][NextConc]_vars

\* ---- save_documents_to_db called twice with one list ----
Documents == [document_id : Ids, title : Titles, end_date : {FormatJst(IsoDate)}]

\* the tables the program leaves behind: one row per document_id
Tables == {rows \in SUBSET Documents : \A r, s \in rows : r.document_id = s.document_id => r = s}

InitTwice ==
    /\ pc = "connect"
    /\ search_results = None
    /\ parsed_data \in SeqsUpTo(Documents, MaxDocs)
    /\ conn = "None"
    /\ cursor = "unbound"
    /\ idx = 0
    /\ current_count = 0
    /\ newly_added_count = 0
    /\ dbError = "none"
    /\ exception = "none"
    /\ committed = FALSE
    /\ out = {}
    /\ table \in Tables
    /\ tableExists \in {t \in BOOLEAN : table # {} => t}
    /\ txExists = tableExists
    /\ txView = table
    /\ tableBefore = table
    /\ first = NoFirst

\* the first call returned; the function is entered again with the same list
SaveAgain ==
    /\ pc = "returned"
    /\ ~first.done
    /\ first' = [done |-> TRUE,
                 fresh |-> committed /\ Fresh(parsed_data, tableBefore),
                 ret |-> newly_added_count]
    /\ pc' = "connect"
    /\ conn' = "None"
    /\ cursor' = "unbound"
    /\ idx' = 0
    /\ current_count' = 0
    /\ newly_added_count' = 0
    /\ dbError' = "none"
    /\ committed' = FALSE
    /\ tableBefore' = table
    /\ UNCHANGED <<search_results, parsed_data, exception, out, dbVars>>

NextTwice ==
    \/ Connect
    \/ ConnectFails
    \/ Cursor
    \/ CursorFails
    \/ CreateTable
    \/ CreateTableFails
    \/ CountBefore
    \/ Insert
    \/ CountAfter
    \/ StatementFails
    \/ Commit
    \/ CommitFails
    \/ Finally
    \/ SaveAgain

SpecTwice == InitTwice /\ [][NextTwice]_vars

\* ---- properties ----
Returned == pc \in {"returned", "done"}
SaveFailed == dbError # "none" \/ "create_failed" \in out
DocIds(docs) == {docs[i].document_id : i \in 1..Len(docs)}

\* C1: a list of N documents with distinct ids, none of them in the table, is
\* saved twice: the first call returns N, the second returns 0 and leaves the
\* table as the first call left it.
C1_Idempotent ==
    /\ (pc = "returned" /\ ~first.done /\ committed /\ Fresh(parsed_data, tableBefore))
          => newly_added_count = Len(parsed_data)
    /\ (pc = "returned" /\ first.done /\ first.fresh)
          => /\ first.ret = Len(parsed_data)
             /\ newly_added_count = 0
             /\ table = tableBefore

C1_Witness ==
    /\ pc = "returned"
    /\ first.done /\ first.fresh
    /\ committed
    /\ Len(parsed_data) >= 2
    /\ first.ret = Len(parsed_data)
    /\ newly_added_count = 0

\* C2: with one writer and no database error the returned count is the number
\* of distinct document_ids of the input that were not in the table before
\* the run, and the table grew by exactly that many rows.
C2_ReturnsRowsAdded ==
    (Returned /\ committed) =>
        /\ newly_added_count = Cardinality(DocIds(parsed_data) \ RowIds(tableBefore))
        /\ Cardinality(table) = Cardinality(tableBefore) + newly_added_count

C2_Witness ==
    /\ Returned /\ committed
    /\ Len(parsed_data) = 3
    /\ parsed_data[1].document_id \in RowIds(tableBefore)
    /\ parsed_data[2].document_id = parsed_data[3].document_id
    /\ parsed_data[2].document_id \notin RowIds(tableBefore)
    /\ newly_added_count = 1
    /\ Cardinality(table) = Cardinality(tableBefore) + 1

\* C3: the table holds at most one row per document_id, a row that was there
\* before a run is there unchanged after it, and a document whose id is
\* already present never makes a statement fail.
OneRowPerId(rows) == \A r, s \in rows : r.document_id = s.document_id => r = s

C3_InsertIfAbsent ==
    /\ OneRowPerId(table)
    /\ OneRowPerId(txView)
    /\ tableBefore \subseteq table
    /\ table \subseteq txView
    /\ dbError # "integrity"

C3_Witness ==
    /\ Returned /\ committed
    /\ newly_added_count > 0
    /\ \E i \in 1..Len(parsed_data) :
         /\ parsed_data[i].document_id \in RowIds(tableBefore)
         /\ parsed_data[i] \notin tableBefore
         /\ parsed_data[i] \notin table

\* C4: a run that met a database error leaves none of its rows in the table
\* and returns 0.
C4_FailureRollsBackAndReturnsZero ==
    (Returned /\ SaveFailed) => (table = tableBefore /\ newly_added_count = 0)

\* C5: the 'saved to database' summary is printed only when the transaction
\* was committed.
C5_SavedOnlyAfterCommit == "saved" \in out => committed

\* C6: after get_data failed the run prints the failure message, does not
\* enter parse_documents_list or save_documents_to_db and ends without an
\* unhandled exception.
C6_FetchFailureEndsCleanly ==
    ("api_error" \in out /\ pc # "fetched") =>
        /\ "no_results" \in out
        /\ conn = "None" /\ table = tableBefore
        /\ exception = "none"

\* C7: a decoded response without a records key, the empty object included,
\* is an empty result and not a fetch failure: save_documents_to_db is run
\* and reports 0.
C7_NoRecordsKeyIsEmptyResult ==
    (search_results.kind = "dict" /\ ~search_results.has_records /\ pc # "fetched") =>
        /\ "no_results" \notin out
        /\ parsed_data = <<>>
        /\ Returned => newly_added_count = 0

\* C8: when save_documents_to_db is left, every connection and cursor it
\* acquired is closed, and the release step did not raise.
C8_ResourcesReleased ==
    (pc \in {"returned", "done", "crashed"}) =>
        /\ conn # "open"
        /\ cursor # "open"
        /\ exception # "UnboundLocalError"

\* C9: a record whose end_date does not parse fails alone: the other records
\* of the batch are normalised and returned in input order.
RECURSIVE ParseableOnly(_)
ParseableOnly(records) ==
    IF records = <<>> THEN <<>>
    ELSE IF DateParses(Head(records).end_date)
         THEN <<Normalize(Head(records))>> \o ParseableOnly(Tail(records))
         ELSE ParseableOnly(Tail(records))

C9_BadDateFailsAlone ==
    (Truthy(search_results) /\ pc # "fetched") =>
        /\ exception # "ValueError"
        /\ parsed_data = ParseableOnly(search_results.records)

\* C10: with another writer committing inserts during the run, the count
\* this run computes equals the number of its own inserts that took effect.
C10_DeltaEqualsOwnInserts ==
    pc = "commit" => newly_added_count = Cardinality(txView \ table)

====
